---- MODULE Spec2Model ----
(***************************************************************************)
(* Model of the sambhala.ai chat application:                              *)
(*   - the chat page (src/app/page.tsx) and its input form                 *)
(*     (src/unnamed/part_000, ChatInput),                                  *)
(*   - the chat endpoint POST (src/unnamed/part_002),                      *)
(*   - the seven capability executors and their registry                   *)
(*     (src/app/api/chat/tools.ts).                                        *)
(* Strings the code inspects character by character (the chat input, the   *)
(* calculator expression) are sequences of one-character strings.          *)
(***************************************************************************)
EXTENDS Integers, Sequences, FiniteSets, TLC

VARIABLES
    input,       \* page.tsx:9    useState('') : the text of the input box
    status,      \* page.tsx:10   useChat().status
    messages,    \* page.tsx:10   useChat().messages : the conversation (UIMessage[])
    request,     \* the body of the POST in flight, {messages}, or NoRequest
    streamCall,  \* part_002:15   the options object POST hands to streamText
    loopState,   \* where the endpoint's turn is
    steps,       \* number of model steps of the current turn
    env,         \* process.env : which credentials are configured
    call         \* the executor invocation that just returned, or idle

chatVars == <<input, status, messages, request, streamCall, loopState, steps>>
toolVars == <<env, call>>
vars == <<input, status, messages, request, streamCall, loopState, steps,
          env, call>>

----------------------------------------------------------------------------
(* Bounds of the model *)

MaxInputLen == 2     \* longest text typed into the input box
MaxTurns == 2        \* messages sent in one session
MaxExprLen == 4      \* longest calculator expression
MaxCount == 7        \* news count argument ranges over -MaxCount..MaxCount
MaxAmount == 3       \* number of distinct currency amounts tried

----------------------------------------------------------------------------
(* Strings as sequences of characters *)

RECURSIVE SeqsUpTo(_, _)
SeqsUpTo(S, n) ==
    IF n = 0 THEN {<<>>}
    ELSE LET shorter == SeqsUpTo(S, n - 1)
         IN  shorter \cup {Append(s, c) : s \in {t \in shorter : Len(t) = n - 1}, c \in S}

IsSpace(c) == c = " "

\* String.prototype.trim : strips leading and trailing whitespace
RECURSIVE TrimLeft(_)
TrimLeft(s) ==
    IF s = <<>> THEN <<>>
    ELSE IF IsSpace(Head(s)) THEN TrimLeft(Tail(s)) ELSE s

RECURSIVE TrimRight(_)
TrimRight(s) ==
    IF s = <<>> THEN <<>>
    ELSE IF IsSpace(s[Len(s)]) THEN TrimRight(SubSeq(s, 1, Len(s) - 1)) ELSE s

Trim(s) == TrimRight(TrimLeft(s))

\* JavaScript truthiness of a string : '' is falsy
Falsy(s) == s = <<>>

----------------------------------------------------------------------------
(* The capability registry, tools.ts:216-224 *)

tools ==
    [getWeather      |-> "weatherTool",
     getTime         |-> "timeTool",
     convertCurrency |-> "currencyTool",
     getNews         |-> "newsTool",
     getStockPrice   |-> "stockTool",
     getLocation     |-> "locationTool",
     calculate       |-> "calculatorTool"]

ToolNames == DOMAIN tools

----------------------------------------------------------------------------
(* The chat page *)

InputChars == {"a", " "}
InputStrings == SeqsUpTo(InputChars, MaxInputLen)

NoRequest == [none |-> TRUE]
NoCall == [none |-> TRUE]
NotSet == "undefined"

\* page.tsx:11
isLoading_SubmittedForgotten == status = "streaming"
isLoading == status = "streaming" \/ status = "submitted"

\* part_000:21   <input disabled={isLoading}>
InputDisabled == isLoading

\* part_000:26   <button type="submit" disabled={isLoading || !input.trim()}>
SubmitDisabled == isLoading \/ Falsy(Trim(input))

\* a UIMessage with one text part
UserMessage(text) == [role |-> "user", parts |-> <<[type |-> "text", text |-> text]>>]
AssistantMessage == [role |-> "assistant", parts |-> <<[type |-> "text", text |-> <<"a">>]>>]

\* part_000:19   onChange={(e) => setInput(e.target.value)} ; a disabled input
\* takes no keystrokes
SetInput(value) ==
    /\ ~InputDisabled
    /\ value # input
    /\ input' = value
    /\ UNCHANGED <<status, messages, request, streamCall, loopState, steps>>
    /\ UNCHANGED toolVars

\* page.tsx:26-31, the form's onSubmit. The form is submitted through its
\* submit button (a click, or Enter in the text box), which a disabled button
\* prevents. sendMessage appends the user's message, sets status to
\* 'submitted' and posts the conversation to the endpoint.
SubmitForm ==
    /\ ~SubmitDisabled
    /\ Len(SelectSeq(messages, LAMBDA m : m.role = "user")) < MaxTurns
    /\ IF Falsy(Trim(input))
       THEN UNCHANGED <<input, status, messages, request>>
       ELSE /\ messages' = Append(messages, UserMessage(input))
            /\ request' = [messages |-> Append(messages, UserMessage(input))]
            /\ status' = "submitted"
            /\ input' = <<>>
    /\ UNCHANGED <<streamCall, loopState, steps>>
    /\ UNCHANGED toolVars

----------------------------------------------------------------------------
(* The chat endpoint, part_002 *)

\* part_002:18   convertToModelMessages : a UIMessage's text parts become the
\* content of a model message
RECURSIVE JoinText(_)
JoinText(parts) ==
    IF parts = <<>> THEN <<>>
    ELSE (IF Head(parts).type = "text" THEN Head(parts).text ELSE <<>>) \o JoinText(Tail(parts))

convertToModelMessages(msgs) ==
    [i \in 1..Len(msgs) |-> [role |-> msgs[i].role, content |-> JoinText(msgs[i].parts)]]

\* part_002:15-23   the options of the streamText call : model, system and
\* messages ; `tools` and `maxSteps` are commented out
StreamTextOptions(body) ==
    [messages |-> convertToModelMessages(body.messages),
     tools    |-> {},
     maxSteps |-> NotSet]

\* part_002:9-25
POST ==
    /\ request # NoRequest
    /\ loopState \in {"Idle", "Done", "Failed"}
    /\ status = "submitted"
    /\ streamCall' = StreamTextOptions(request)
    /\ loopState' = "Streaming"
    /\ steps' = 1
    /\ UNCHANGED <<input, status, messages, request>>
    /\ UNCHANGED toolVars

\* part_002:25   toUIMessageStreamResponse : the first chunk of the response
\* reaches the page
StreamChunk ==
    /\ loopState = "Streaming"
    /\ status = "submitted"
    /\ status' = "streaming"
    /\ UNCHANGED <<input, messages, request, streamCall, loopState, steps>>
    /\ UNCHANGED toolVars

\* The model's step ends. It can request only capabilities declared to it in
\* streamCall.tools ; a step without requests is the final answer.
FinishStep ==
    /\ loopState = "Streaming"
    /\ status = "streaming"
    /\ \E requested \in SUBSET streamCall.tools :
          IF requested = {}
          THEN /\ loopState' = "Done"
               /\ messages' = Append(messages, AssistantMessage)
               /\ status' = "ready"
               /\ request' = NoRequest
          ELSE /\ loopState' = "Dispatching"
               /\ UNCHANGED <<messages, status, request>>
    /\ UNCHANGED <<input, streamCall, steps>>
    /\ UNCHANGED toolVars

\* The model stream fails ; useChat reports status 'error'
StreamError ==
    /\ loopState = "Streaming"
    /\ loopState' = "Failed"
    /\ status' = "error"
    /\ request' = NoRequest
    /\ UNCHANGED <<input, messages, streamCall, steps>>
    /\ UNCHANGED toolVars

----------------------------------------------------------------------------
(* Capability executors, tools.ts. An executor's try block ends by        *)
(* returning a string or by throwing ; `fetch` names the upstream request *)
(* it issued, if any.                                                      *)

NoFetch == [provider |-> "none"]

Return(msg, fetch, detail) == [kind |-> "return", msg |-> msg, fetch |-> fetch, detail |-> detail]
Throw(fetch) == [kind |-> "throw", msg |-> "exception", fetch |-> fetch, detail |-> <<>>]

\* catch (error) { return <failure>; }
Catch(outcome, failure) ==
    IF outcome.kind = "throw" THEN Return(failure, outcome.fetch, <<>>) ELSE outcome

\* 1. WEATHER, tools.ts:15-33
WeatherUpstream == {"networkError", "notOk", "invalidJson", "nullBody", "emptyObject", "complete"}
Cities == {"Kathmandu", "Atlantis"}

weatherTry_NoKeyCheck(e, city, up) ==
    LET f == [provider |-> "openweathermap", q |-> city]
    IN  IF up = "networkError" THEN Throw(f)
        ELSE IF up = "notOk" \/ ~e.OPENWEATHER_API_KEY THEN Throw(f)
        ELSE IF up \in {"invalidJson", "nullBody", "emptyObject"} THEN Throw(f)
        ELSE Return("weather report", f, <<city>>)

weatherTry(e, city, up) ==
    IF ~e.OPENWEATHER_API_KEY
    THEN Return("Weather API key not configured.", NoFetch, <<>>)
    ELSE LET f == [provider |-> "openweathermap", q |-> city]
         IN  IF up = "networkError" THEN Throw(f)                \* fetch rejects
             ELSE IF up = "notOk" THEN Throw(f)                  \* !res.ok
             ELSE IF up = "invalidJson" THEN Throw(f)            \* res.json() rejects
             ELSE IF up \in {"nullBody", "emptyObject"} THEN Throw(f)  \* data.sys.country
             ELSE Return("weather report", f, <<city>>)

weatherExecute(e, city, up) ==
    Catch(weatherTry(e, city, up), "Couldn't fetch weather. Please check the city name.")

\* 2. TIME, tools.ts:42-63
Absent == "undefined"
Timezones == {Absent, "", "Asia/Kathmandu", "Mars/Olympus"}
ValidTimezones == {"UTC", "Asia/Kathmandu"}
DEFAULT_TIMEZONE == "UTC"

timeTry(timezone) ==
    LET tz == IF timezone \in {Absent, ""} THEN DEFAULT_TIMEZONE ELSE timezone
    IN  IF tz \notin ValidTimezones
        THEN Throw(NoFetch)                                      \* RangeError
        ELSE Return("formatted time", NoFetch, <<tz>>)

timeExecute(timezone) ==
    Catch(timeTry(timezone),
          "Invalid timezone. Examples: Asia/Kathmandu, America/New_York, Europe/London")

\* 3. CURRENCY, tools.ts:74-87. Amounts are whole numbers and rates are in
\* tenths (1335 is 133.5), so a product is exact in tenths.
CurrencyCodes == {"USD", "NPR", "usd", "npr", "XXX"}
toUpperCase(code) ==
    IF code = "usd" THEN "USD" ELSE IF code = "npr" THEN "NPR" ELSE code

RateTenths == {5, 10, 1335}
RateTables ==
    UNION {[D -> RateTenths] : D \in SUBSET {"USD", "NPR"}}
CurrencyUpstream ==
    {[shape |-> s, rates |-> <<>>] : s \in {"networkError", "invalidJson", "nullBody", "noRates"}}
    \cup {[shape |-> "rates", rates |-> t] : t \in RateTables}
Amounts == (-1 .. MaxAmount) \cup {100}

\* data.rates[key] : a number, or undefined
Lookup(table, key) ==
    IF key \in DOMAIN table THEN [defined |-> TRUE, n |-> table[key]]
    ELSE [defined |-> FALSE, n |-> 0]

\* Number.prototype.toFixed(2) of a value given in tenths
toFixed2(tenths) ==
    LET mag == IF tenths < 0 THEN -tenths ELSE tenths
    IN  [neg |-> tenths < 0, whole |-> mag \div 10, cents |-> (mag % 10) * 10]

rateOf_CaseSensitive(table, to) == Lookup(table, to)

\* tools.ts:78   data.rates[to.toUpperCase()]
rateOf(table, to) == Lookup(table, toUpperCase(to))

currencyTry(amount, from, to, up) ==
    LET f == [provider |-> "exchangerate-api", base |-> toUpperCase(from)]
    IN  IF up.shape \in {"networkError", "invalidJson"} THEN Throw(f)
        ELSE IF up.shape \in {"nullBody", "noRates"} THEN Throw(f)   \* data.rates[...]
        ELSE LET rate == rateOf(up.rates, to)
             IN  IF ~rate.defined \/ rate.n = 0 THEN Throw(f)        \* !rate
                 ELSE Return("conversion", f,
                             [amount |-> amount, from |-> toUpperCase(from),
                              converted |-> toFixed2(amount * rate.n),
                              to |-> toUpperCase(to), rate |-> rate.n])

currencyExecute_NoCatch(amount, from, to, up) == currencyTry(amount, from, to, up)

currencyExecute(amount, from, to, up) ==
    Catch(currencyTry(amount, from, to, up),
          "Couldn't fetch exchange rate. Try: USD, EUR, GBP, INR, NPR, JPY")

\* 4. NEWS, tools.ts:98-128
NEWS_COUNT == 3
NoCount == [given |-> FALSE, n |-> 0]
Counts == {NoCount} \cup {[given |-> TRUE, n |-> k] : k \in -MaxCount .. MaxCount}
NewsUpstream ==
    {"networkError", "invalidJson", "nullBody", "noArticles", "emptyArticles",
     "nullArticle", "articles"}

\* tools.ts:100   z.number().optional().default(DEFAULTS.NEWS_COUNT)
parseCount(count) == IF ~count.given THEN NEWS_COUNT ELSE count.n

Min(a, b) == IF a < b THEN a ELSE b
Max(a, b) == IF a > b THEN a ELSE b

articleCount_NoFloor(count) == Min(IF count = 0 THEN NEWS_COUNT ELSE count, 5)

\* tools.ts:109   Math.min(Math.max(count || DEFAULTS.NEWS_COUNT, 1), 5)
articleCount(count) == Min(Max(IF count = 0 THEN NEWS_COUNT ELSE count, 1), 5)

newsTry(e, topic, count, up) ==
    IF ~e.NEWS_API_KEY
    THEN Return("News API key not configured.", NoFetch, <<>>)
    ELSE LET f == [provider |-> "newsapi", q |-> topic, pageSize |-> articleCount(count)]
         IN  IF up \in {"networkError", "invalidJson"} THEN Throw(f)
             ELSE IF up = "nullBody" THEN Throw(f)               \* data.articles
             ELSE IF up \in {"noArticles", "emptyArticles"}
                  THEN Return("No recent news found.", f, <<topic>>)
             ELSE IF up = "nullArticle" THEN Throw(f)            \* a.title
             ELSE Return("Latest news", f, <<topic>>)

newsExecute(e, topic, count, up) ==
    Catch(newsTry(e, topic, count, up), "News service temporarily unavailable.")

\* 5. STOCK, tools.ts:149-169
StockUpstream ==
    {"networkError", "invalidJson", "nullBody", "noChart", "noResult", "noMeta",
     "emptyMeta", "complete"}

stockTry(symbol, up) ==
    LET f == [provider |-> "yahoo-finance", symbol |-> symbol]
    IN  IF up \in {"networkError", "invalidJson"} THEN Throw(f)
        ELSE IF up = "nullBody" THEN Throw(f)                    \* data.chart
        ELSE IF up \in {"noChart", "noResult"}
             THEN Return("Stock not found.", f, <<symbol>>)
        ELSE IF up = "noMeta" THEN Throw(f)                      \* meta.regularMarketPrice
        ELSE IF up = "emptyMeta" THEN Throw(f)                   \* price.toFixed
        ELSE Return("quote", f, <<symbol>>)

stockExecute(symbol, up) == Catch(stockTry(symbol, up), "Couldn't fetch stock data.")

\* 6. LOCATION, tools.ts:186-195
LocationUpstream == {"networkError", "invalidJson", "nullBody", "emptyObject", "complete"}

locationTry(up) ==
    LET f == [provider |-> "ipapi"]
    IN  IF up \in {"networkError", "invalidJson"} THEN Throw(f)
        ELSE IF up = "nullBody" THEN Throw(f)                    \* data.city
        ELSE Return("Location", f, <<up>>)

locationExecute(up) == Catch(locationTry(up), "Couldn't detect location.")

\* 7. CALCULATOR, tools.ts:204-212
CalcChars == {"2", "+", "(", ")", " ", "q"}
Expressions == SeqsUpTo(CalcChars, MaxExprLen)

\* the character class of the regular expression at tools.ts:206
AllowedChar(c) == c \in {"0", "1", "2", "3", "4", "5", "6", "7", "8", "9",
                         "+", "-", "*", "/", "(", ")", ".", " "}
IsDigit(c) == c \in {"0", "1", "2", "3", "4", "5", "6", "7", "8", "9"}
DigitValue(c) == CHOOSE d \in 0..9 : ToString(d) = c

\* tools.ts:206   expression.replace(/[^0-9+\-*/().\s]/g, '')
sanitize(expression) == SelectSeq(expression, AllowedChar)

\* JavaScript's tokens over digits, +, ( and ) : a maximal run of digits is a
\* number, two adjacent + are the token ++ .
Tok(t, v) == [t |-> t, v |-> v]

RECURSIVE Tokenize(_, _)
Tokenize(s, pending) ==
    \* pending : -1, or the value of the digits read so far of a number
    IF s = <<>> THEN (IF pending >= 0 THEN <<Tok("num", pending)>> ELSE <<>>)
    ELSE LET c == Head(s)
             flush == IF pending >= 0 THEN <<Tok("num", pending)>> ELSE <<>>
         IN  IF IsDigit(c)
             THEN Tokenize(Tail(s), (IF pending >= 0 THEN pending * 10 ELSE 0) + DigitValue(c))
             ELSE IF IsSpace(c) THEN flush \o Tokenize(Tail(s), -1)
             ELSE IF c = "+" /\ Len(s) >= 2 /\ s[2] = "+"
                  THEN flush \o <<Tok("++", 0)>> \o Tokenize(Tail(Tail(s)), -1)
             ELSE flush \o <<Tok(c, 0)>> \o Tokenize(Tail(s), -1)

\* The value of `return <tokens>` : AdditiveExpression over unary + , numbers
\* and parentheses. Everything else these tokens can spell (++ on a number, a
\* call of a number, an unfinished expression) throws a SyntaxError or a
\* TypeError.
Parsed(val, rest) == [ok |-> TRUE, val |-> val, rest |-> rest]
ParseError == [ok |-> FALSE, val |-> 0, rest |-> <<>>]

RECURSIVE ParseExpr(_), ParseUnary(_), ParseAddTail(_, _)
ParseUnary(toks) ==
    IF toks = <<>> THEN ParseError
    ELSE LET h == Head(toks)
         IN  IF h.t = "num" THEN Parsed(h.v, Tail(toks))
             ELSE IF h.t = "+" THEN ParseUnary(Tail(toks))
             ELSE IF h.t = "("
                  THEN LET r == ParseExpr(Tail(toks))
                       IN  IF r.ok /\ r.rest # <<>> /\ Head(r.rest).t = ")"
                           THEN Parsed(r.val, Tail(r.rest))
                           ELSE ParseError
             ELSE ParseError

ParseAddTail(acc, toks) ==
    IF toks # <<>> /\ Head(toks).t = "+"
    THEN LET u == ParseUnary(Tail(toks))
         IN  IF u.ok THEN ParseAddTail(acc + u.val, u.rest) ELSE ParseError
    ELSE Parsed(acc, toks)

ParseExpr(toks) ==
    LET u == ParseUnary(toks)
    IN  IF u.ok THEN ParseAddTail(u.val, u.rest) ELSE ParseError

\* tools.ts:207   new Function('return ' + sanitized)()
Undefined == [defined |-> FALSE, n |-> 0]
Number(n) == [defined |-> TRUE, n |-> n]

evaluate(sanitized) ==
    LET toks == Tokenize(sanitized, -1)
        r == ParseExpr(toks)
    IN  IF toks = <<>> THEN [threw |-> FALSE, value |-> Undefined]      \* `return ;`
        ELSE IF r.ok /\ r.rest = <<>> THEN [threw |-> FALSE, value |-> Number(r.val)]
        ELSE [threw |-> TRUE, value |-> Undefined]

calculatorTry(expression) ==
    LET sanitized == sanitize(expression)
        result == evaluate(sanitized)
    IN  IF result.threw THEN Throw(NoFetch)
        ELSE Return("expression = result", NoFetch,
                    [expression |-> expression, result |-> result.value])

calculatorExecute(expression) ==
    Catch(calculatorTry(expression),
          "Invalid expression. Use: +, -, *, /, sqrt(), parentheses")

----------------------------------------------------------------------------
(* Invocations of the executors *)

Invocation(tool, args, up, result) ==
    [phase |-> "returned", tool |-> tool, args |-> args, up |-> up, result |-> result]

getWeather ==
    /\ call.phase = "idle"
    /\ \E city \in Cities, up \in WeatherUpstream :
           LET result == weatherExecute(env, city, up)
           IN  /\ call' = Invocation("getWeather", [city |-> city], up, result)
               /\ UNCHANGED env
               /\ UNCHANGED chatVars

getTime ==
    /\ call.phase = "idle"
    /\ \E timezone \in Timezones :
           LET result == timeExecute(timezone)
           IN  /\ call' = Invocation("getTime", [timezone |-> timezone], "none", result)
               /\ UNCHANGED env
               /\ UNCHANGED chatVars

convertCurrency ==
    /\ call.phase = "idle"
    /\ \E amount \in Amounts, from \in {"USD", "usd"}, to \in CurrencyCodes, up \in CurrencyUpstream :
           LET result == currencyExecute(amount, from, to, up)
           IN  /\ call' = Invocation("convertCurrency",
                                     [amount |-> amount, from |-> from, to |-> to], up, result)
               /\ UNCHANGED env
               /\ UNCHANGED chatVars

getNews ==
    /\ call.phase = "idle"
    /\ \E count \in Counts, up \in NewsUpstream :
           LET result == newsExecute(env, "AI", parseCount(count), up)
           IN  /\ call' = Invocation("getNews", [topic |-> "AI", count |-> count], up, result)
               /\ UNCHANGED env
               /\ UNCHANGED chatVars

getStockPrice ==
    /\ call.phase = "idle"
    /\ \E symbol \in {"AAPL", "ZZZZ"}, up \in StockUpstream :
           LET result == stockExecute(symbol, up)
           IN  /\ call' = Invocation("getStockPrice", [symbol |-> symbol], up, result)
               /\ UNCHANGED env
               /\ UNCHANGED chatVars

getLocation ==
    /\ call.phase = "idle"
    /\ \E up \in LocationUpstream :
           LET result == locationExecute(up)
           IN  /\ call' = Invocation("getLocation", <<>>, up, result)
               /\ UNCHANGED env
               /\ UNCHANGED chatVars

calculate ==
    /\ call.phase = "idle"
    /\ \E expression \in Expressions :
           LET result == calculatorExecute(expression)
           IN  /\ call' = Invocation("calculate", [expression |-> expression], "none", result)
               /\ UNCHANGED env
               /\ UNCHANGED chatVars

\* the caller takes the result ; the executor can be invoked again
Collect ==
    /\ call.phase = "returned"
    /\ call' = [phase |-> "idle"]
    /\ UNCHANGED env
    /\ UNCHANGED chatVars

----------------------------------------------------------------------------

InitChat ==
    /\ input = <<>>
    /\ status = "ready"
    /\ messages = <<>>
    /\ request = NoRequest
    /\ streamCall = NoCall
    /\ loopState = "Idle"
    /\ steps = 0

Idle == [phase |-> "idle"]

Init ==
    /\ InitChat
    /\ env = [OPENWEATHER_API_KEY |-> FALSE, NEWS_API_KEY |-> FALSE]
    /\ call = Idle

Next ==
    \/ \E value \in InputStrings : SetInput(value)
    \/ SubmitForm
    \/ POST
    \/ StreamChunk
    \/ FinishStep
    \/ StreamError

Spec == Init /\ [][Next]_vars

ToolInit ==
    /\ InitChat
    /\ env \in [OPENWEATHER_API_KEY : BOOLEAN, NEWS_API_KEY : BOOLEAN]
    /\ call = Idle

ToolNext ==
    \/ getWeather
    \/ getTime
    \/ convertCurrency
    \/ getNews
    \/ getStockPrice
    \/ getLocation
    \/ calculate
    \/ Collect

ToolSpec == ToolInit /\ [][ToolNext]_vars

----------------------------------------------------------------------------
(* Properties *)

InFlight == status \in {"submitted", "streaming"}
TurnOver == loopState \in {"Done", "StepLimitReached"}
Called(tool) == call.phase = "returned" /\ call.tool = tool

\* part_002:22   the step budget the commented-out option would configure
DefaultStepLimit == 5

\* C1 : whenever the endpoint is Streaming, the model stream was invoked with
\* the conversation of the request and with all seven registered capabilities
\* declared.
C1_StreamingDeclaresRegistry ==
    loopState = "Streaming" =>
        /\ streamCall.messages = convertToModelMessages(request.messages)
        /\ streamCall.tools = ToolNames

\* C3 : with the model free to request a capability in every step, a turn is
\* over only in StepLimitReached, after exactly the default limit of 5 model
\* steps.
C3_TurnEndsAtStepLimit ==
    TurnOver => (loopState = "StepLimitReached" /\ steps = DefaultStepLimit)

HasDisallowedChar(expression) == \E i \in 1..Len(expression) : ~AllowedChar(expression[i])

\* C5 : the calculator answers an expression that holds a character outside
\* digits, + - * / ( ) . and whitespace with its rejection message, never with
\* an evaluated value ; and it answers "2+2" with 4.
C5_RejectsDisallowedCharacters ==
    Called("calculate") =>
        /\ HasDisallowedChar(call.args.expression) =>
               call.result.msg = "Invalid expression. Use: +, -, *, /, sqrt(), parentheses"
        /\ call.args.expression = <<"2", "+", "2">> =>
               /\ call.result.msg = "expression = result"
               /\ call.result.detail.result = Number(4)

FailureMessages ==
    {"Weather API key not configured.",
     "Couldn't fetch weather. Please check the city name.",
     "Invalid timezone. Examples: Asia/Kathmandu, America/New_York, Europe/London",
     "Couldn't fetch exchange rate. Try: USD, EUR, GBP, INR, NPR, JPY",
     "News API key not configured.", "No recent news found.",
     "News service temporarily unavailable.",
     "Stock not found.", "Couldn't fetch stock data.",
     "Couldn't detect location.",
     "Invalid expression. Use: +, -, *, /, sqrt(), parentheses"}
SuccessMessages ==
    {"weather report", "formatted time", "conversion", "Latest news", "quote", "Location",
     "expression = result"}

\* C6 : every executor, whatever its upstream did (network failure, non-success
\* response, malformed or incomplete body, evaluation error), hands its caller
\* a string ; none raises.
C6_ExecutorsNeverRaise ==
    call.phase = "returned" =>
        /\ call.tool \in ToolNames
        /\ call.result.kind = "return"
        /\ call.result.msg \in FailureMessages \cup SuccessMessages

\* an executor returned although its upstream body could not be read
C6_Witness ==
    /\ Called("convertCurrency")
    /\ call.up.shape = "noRates"
    /\ call.result.kind = "return"
    /\ call.result.msg \in FailureMessages

AllKeys == [OPENWEATHER_API_KEY |-> TRUE, NEWS_API_KEY |-> TRUE]

\* C7 : without OPENWEATHER_API_KEY every weather invocation, and without
\* NEWS_API_KEY every news invocation, returns its "not configured" failure
\* and issues no upstream request ; the capability whose own key is present
\* answers as it does with both keys present.
C7_MissingCredentialDegrades ==
    /\ Called("getWeather") =>
          IF ~env.OPENWEATHER_API_KEY
          THEN /\ call.result.kind = "return"
               /\ call.result.msg = "Weather API key not configured."
               /\ call.result.fetch = NoFetch
          ELSE call.result = weatherExecute(AllKeys, call.args.city, call.up)
    /\ Called("getNews") =>
          IF ~env.NEWS_API_KEY
          THEN /\ call.result.kind = "return"
               /\ call.result.msg = "News API key not configured."
               /\ call.result.fetch = NoFetch
          ELSE call.result =
                   newsExecute(AllKeys, call.args.topic, parseCount(call.args.count), call.up)

\* the weather key is missing and the provider would have answered
C7_Witness ==
    /\ Called("getWeather")
    /\ ~env.OPENWEATHER_API_KEY
    /\ env.NEWS_API_KEY
    /\ call.up = "complete"
    /\ call.result.msg = "Weather API key not configured."

\* C8 : whatever the count argument (absent, zero, negative, above 5), the
\* pageSize of the request to the news provider is within 1..5, and it is 3
\* when count is absent.
C8_HeadlineCountClamped ==
    (Called("getNews") /\ call.result.fetch.provider = "newsapi") =>
        /\ call.result.fetch.pageSize \in 1..5
        /\ ~call.args.count.given => call.result.fetch.pageSize = NEWS_COUNT

\* a negative count was requested and the provider was called
C8_Witness ==
    /\ Called("getNews")
    /\ call.args.count.given
    /\ call.args.count.n < 0
    /\ call.result.fetch.provider = "newsapi"
    /\ call.result.fetch.pageSize = 1

Hundredths(converted) ==
    (IF converted.neg THEN -1 ELSE 1) * (converted.whole * 100 + converted.cents)

\* C9 : given the source currency's rate table (positive rates), the currency
\* executor returns amount times the rate of the target currency with two
\* decimals (100 USD -> NPR at 133.5 is 13350.00), and returns its failure
\* message when the target code, upper-cased, has no entry in the table.
C9_CurrencyConversion ==
    (Called("convertCurrency") /\ call.up.shape = "rates") =>
        LET target == toUpperCase(call.args.to)
        IN  IF target \in DOMAIN call.up.rates
            THEN /\ call.result.msg = "conversion"
                 /\ call.result.detail.converted.cents \in 0..99
                 /\ Hundredths(call.result.detail.converted)
                        = call.args.amount * call.up.rates[target] * 10
                 /\ (call.args.amount = 100 /\ call.up.rates[target] = 1335) =>
                        call.result.detail.converted = [neg |-> FALSE, whole |-> 13350, cents |-> 0]
            ELSE call.result.msg = "Couldn't fetch exchange rate. Try: USD, EUR, GBP, INR, NPR, JPY"

\* 100 USD -> npr at 133.5
C9_Witness ==
    /\ Called("convertCurrency")
    /\ call.args = [amount |-> 100, from |-> "USD", to |-> "npr"]
    /\ call.up.shape = "rates"
    /\ DOMAIN call.up.rates = {"NPR"}
    /\ call.up.rates["NPR"] = 1335
    /\ call.result.detail.converted.whole = 13350

SendMessageCalled ==
    /\ Len(messages') = Len(messages) + 1
    /\ messages'[Len(messages')].role = "user"

\* C10 : while a turn is in flight (status submitted or streaming) the text
\* box and the submit button are disabled ; sendMessage is called only when no
\* turn is in flight, and never with empty or whitespace-only text.
C10_NoSendWhileInFlight ==
    /\ [](InFlight => (InputDisabled /\ SubmitDisabled))
    /\ [][SendMessageCalled =>
            /\ ~InFlight
            /\ Trim(messages'[Len(messages')].parts[1].text) # <<>>]_vars

\* a message has been sent, its turn is in flight and a second message was sent
\* before
C10_Witness ==
    /\ status = "streaming"
    /\ Len(SelectSeq(messages, LAMBDA m : m.role = "user")) = 2
    /\ InputDisabled
    /\ SubmitDisabled

====
